---- MODULE Spec2Model ----
\* Model of convert.py: the startup check of the rendering backend, the scan of
\* the working directory and the per-file conversion convert_code_to_pdf.
\* Console output is modelled by the stream and the message of each per-file
\* outcome; writing to the console itself is taken not to fail. The directory
\* changes only through the backend writing its output and through a source
\* file disappearing before it is opened.
EXTENDS Integers, Sequences, FiniteSets, TLC

\* ---------------------------------------------------------------------------
\* Bounds
\* ---------------------------------------------------------------------------

\* Largest number of entries the working directory holds.
MaxItems == 2

\* ---------------------------------------------------------------------------
\* File names and paths (sequences of characters)
\* ---------------------------------------------------------------------------

CurrentDir == <<"/", "w">>

script_name == <<"c", "o", "n", "v", "e", "r", "t", ".", "p", "y">>

NameAPy == <<"a", ".", "p", "y">>

NameAJs == <<"a", ".", "j", "s">>

NameAPdf == <<"a", ".", "p", "d", "f">>

NameB == <<"b">>

Names == {script_name, NameAPy, NameAJs, NameAPdf, NameB}

\* str.rfind: the last position of character c in s, 0 when c does not occur.
RFind(s, c) ==
    LET hits == {i \in 1..Len(s) : s[i] = c}
    IN  IF hits = {} THEN 0 ELSE CHOOSE i \in hits : \A j \in hits : j <= i

\* os.path.join(d, n) for two components.
Join(d, n) ==
    IF Len(n) > 0 /\ n[1] = "/" THEN n
    ELSE IF Len(d) = 0 \/ d[Len(d)] = "/" THEN d \o n
    ELSE d \o <<"/">> \o n

\* os.path.basename: what follows the last separator.
Basename(p) == SubSeq(p, RFind(p, "/") + 1, Len(p))

\* os.path.splitext: <<root, ext>>; the extension starts at the last dot after
\* the last separator, unless only dots precede it in the file name.
Splitext(p) ==
    LET sepIndex == RFind(p, "/")
        dotIndex == RFind(p, ".")
    IN  IF /\ dotIndex > sepIndex
           /\ \E i \in (sepIndex + 1)..(dotIndex - 1) : p[i] # "."
        THEN <<SubSeq(p, 1, dotIndex - 1), SubSeq(p, dotIndex, Len(p))>>
        ELSE <<p, <<>>>>

\* pdf_filename of convert_code_to_pdf.
PdfFilename(code_file_path) ==
    Splitext(Basename(code_file_path))[1] \o <<".", "p", "d", "f">>

\* output_pdf_path of convert_code_to_pdf.
OutputPdfPath(code_file_path, output_dir) ==
    Join(output_dir, PdfFilename(code_file_path))

FilePath(filename) == Join(CurrentDir, filename)

Paths ==
    {FilePath(n) : n \in Names} \cup {OutputPdfPath(FilePath(n), CurrentDir) : n \in Names}

\* ---------------------------------------------------------------------------
\* File contents
\* ---------------------------------------------------------------------------

NoPath == <<>>

Content(k, src) == [kind |-> k, of |-> src]

Absent == Content("absent", NoPath)

\* What a directory entry can be before the run: a directory, a file that is
\* not UTF-8 text, an empty file, a whitespace-only file, text that content
\* sniffing recognises, text that it does not.
InputKinds == {"dir", "binary", "empty", "space", "sniffable", "opaque"}

\* A PDF the backend wrote holds compressed streams: it does not decode as UTF-8.
DecodeFails(c) == c.kind \in {"binary", "pdf"}

\* str.strip() leaves nothing.
StripIsEmpty(c) == c.kind \in {"empty", "space"}

\* os.path.getsize(...) > 0
SizePositive(c) == c.kind \notin {"absent", "empty"}

\* os.path.exists
Exists(c) == c.kind # "absent"

\* os.path.isfile
IsFile(c) == c.kind \notin {"absent", "dir"}

\* pygments get_lexer_for_filename: by the pattern of the file name.
LexerForFilename(p) ==
    LET ext == Splitext(Basename(p))[2]
    IN  IF ext = <<".", "p", "y">> THEN "Python"
        ELSE IF ext = <<".", "j", "s">> THEN "JavaScript"
        ELSE "ClassNotFound"

\* pygments guess_lexer: by heuristics on the content.
GuessLexer(c) == IF c.kind = "sniffable" THEN "Bash" ELSE "ClassNotFound"

\* ---------------------------------------------------------------------------
\* State
\* ---------------------------------------------------------------------------

VARIABLES
    pc,                     \* position of the script
    exitCode,               \* process exit code, -1 while running
    fs,                     \* the working directory: path -> content
    all_items,              \* result of os.listdir
    idx,                    \* entries of all_items the loop has handled
    processed_files_count,  \* counter of main
    cur,                    \* locals and trace of the conversion in progress
    converted,              \* file names passed to convert_code_to_pdf, in order
    ignored,                \* file names the loop ignored
    opened,                 \* paths opened for reading
    invoked,                \* source paths a backend was spawned for
    procs,                  \* source paths whose backend was spawned and not waited on
    success,                \* source paths reported as SUCCESS
    result,                 \* the RESULT line of main: "none" until printed
    checked,                \* how the startup check ended: "none", "ok", "failed"
    listed,                 \* os.listdir has returned
    dir0,                   \* the directory as it was when os.listdir returned
    outcomes                \* outcome of each finished conversion, in order

vars ==
    <<pc, exitCode, fs, all_items, idx, processed_files_count, cur, converted,
      ignored, opened, invoked, procs, success, result, checked, listed, dir0,
      outcomes>>

NoCur ==
    [path |-> NoPath, read |-> "none", content |-> Absent, byName |-> "none",
     sniffed |-> "none", lexer |-> "none", rendered |-> FALSE, spawned |-> FALSE,
     waited |-> FALSE, rc |-> -1, wrote |-> FALSE, outcome |-> "none", msg |-> "none", stream |-> "none"]

\* All orders of a finite set, as sequences without repetition.
Orders(S) ==
    {s \in [1..Cardinality(S) -> S] : \A i, j \in 1..Cardinality(S) : s[i] = s[j] => i = j}

\* The directory before the run: at most MaxItems entries, named from Names.
Init ==
    /\ pc = "check"
    /\ exitCode = -1
    /\ \E D \in SUBSET Names :
         /\ Cardinality(D) <= MaxItems
         /\ \E k \in [D -> InputKinds] :
              fs = [p \in Paths |->
                      IF \E n \in D : FilePath(n) = p
                      THEN Content(k[CHOOSE n \in D : FilePath(n) = p], NoPath)
                      ELSE Absent]
    /\ all_items = <<>>
    /\ idx = 0
    /\ processed_files_count = 0
    /\ cur = NoCur
    /\ converted = <<>>
    /\ ignored = {}
    /\ opened = {}
    /\ invoked = {}
    /\ procs = {}
    /\ success = {}
    /\ result = [kind |-> "none", count |-> 0]
    /\ checked = "none"
    /\ listed = FALSE
    /\ dir0 = fs
    /\ outcomes = <<>>

\* ---------------------------------------------------------------------------
\* __main__ and main()
\* ---------------------------------------------------------------------------

\* The script leaves through sys.exit(code) or by running off its end (code 0).
Exit(code) ==
    /\ pc' = "exited"
    /\ exitCode' = code

\* Variant of AvailabilityCheck: a failed version query is reported and main()
\* runs all the same.
AvailabilityCheckRunsMainAnyway ==
    /\ pc = "check"
    /\ \E r \in {"ok", "FileNotFoundError", "CalledProcessError", "Exception"} :
         /\ checked' = IF r = "ok" THEN "ok" ELSE "failed"
         /\ pc' = "main"
         /\ exitCode' = exitCode
    /\ UNCHANGED <<fs, all_items, idx, processed_files_count, cur, converted,
                   ignored, opened, invoked, procs, success, result, listed,
                   dir0, outcomes>>

\* __main__: subprocess.run(['wkhtmltopdf', '--version'], check=True) and the
\* three handlers around it; main() is called only when the query returned 0.
AvailabilityCheck ==
    /\ pc = "check"
    /\ \E r \in {"ok", "FileNotFoundError", "CalledProcessError", "Exception"} :
         IF r = "ok"
         THEN /\ checked' = "ok"
              /\ pc' = "main"
              /\ exitCode' = exitCode
         ELSE /\ checked' = "failed"
              /\ Exit(1)
    /\ UNCHANGED <<fs, all_items, idx, processed_files_count, cur, converted,
                   ignored, opened, invoked, procs, success, result, listed,
                   dir0, outcomes>>

\* Names of the entries the directory holds.
Entries == {n \in Names : Exists(fs[FilePath(n)])}

\* main() up to the loop: os.getcwd(), os.listdir(current_dir). An OSError of
\* listdir returns from main, any other exception is reported by main's
\* handler; the script then ends with code 0.
MainListdir ==
    /\ pc = "main"
    /\ \E r \in {"ok", "getcwd_raises", "listdir_OSError"} :
         IF r = "ok"
         THEN /\ all_items' \in Orders(Entries)
              /\ listed' = TRUE
              /\ pc' = "loop"
              /\ exitCode' = exitCode
         ELSE /\ all_items' = all_items
              /\ listed' = listed
              /\ Exit(0)
    /\ dir0' = fs
    /\ UNCHANGED <<fs, idx, processed_files_count, cur, converted, ignored,
                   opened, invoked, procs, success, result, checked, outcomes>>

\* Variant of LoopStep: the comparison with script_name is missing.
LoopStepNoScriptCheck ==
    /\ pc = "loop"
    /\ idx < Len(all_items)
    /\ LET filename == all_items[idx + 1]
           file_path == Join(CurrentDir, filename)
       IN  IF IsFile(fs[file_path])
           THEN /\ converted' = Append(converted, filename)
                /\ cur' = [NoCur EXCEPT !.path = file_path]
                /\ pc' = "read"
                /\ UNCHANGED <<ignored, idx>>
           ELSE /\ ignored' = ignored \cup {filename}
                /\ idx' = idx + 1
                /\ UNCHANGED <<pc, cur, converted>>
    /\ UNCHANGED <<exitCode, fs, all_items, processed_files_count, opened,
                   invoked, procs, success, result, checked, listed, dir0,
                   outcomes>>

\* One pass of `for filename in all_items` up to the call of
\* convert_code_to_pdf: the script itself and non-files are ignored.
LoopStep ==
    /\ pc = "loop"
    /\ idx < Len(all_items)
    /\ LET filename == all_items[idx + 1]
           file_path == Join(CurrentDir, filename)
       IN  IF filename = script_name
           THEN /\ ignored' = ignored \cup {filename}
                /\ idx' = idx + 1
                /\ UNCHANGED <<pc, cur, converted>>
           ELSE IF IsFile(fs[file_path])
           THEN /\ converted' = Append(converted, filename)
                /\ cur' = [NoCur EXCEPT !.path = file_path]
                /\ pc' = "read"
                /\ UNCHANGED <<ignored, idx>>
           ELSE /\ ignored' = ignored \cup {filename}
                /\ idx' = idx + 1
                /\ UNCHANGED <<pc, cur, converted>>
    /\ UNCHANGED <<exitCode, fs, all_items, processed_files_count, opened,
                   invoked, procs, success, result, checked, listed, dir0,
                   outcomes>>

\* Variant of LoopReturn: only successful conversions are counted.
LoopReturnCountsSuccess ==
    /\ pc = "returned"
    /\ processed_files_count' =
         IF cur.outcome = "success" THEN processed_files_count + 1
         ELSE processed_files_count
    /\ idx' = idx + 1
    /\ outcomes' = Append(outcomes, cur.outcome)
    /\ cur' = NoCur
    /\ pc' = "loop"
    /\ UNCHANGED <<exitCode, fs, all_items, converted, ignored, opened,
                   invoked, procs, success, result, checked, listed, dir0>>

\* convert_code_to_pdf has returned: processed_files_count += 1, next entry.
LoopReturn ==
    /\ pc = "returned"
    /\ processed_files_count' = processed_files_count + 1
    /\ idx' = idx + 1
    /\ outcomes' = Append(outcomes, cur.outcome)
    /\ cur' = NoCur
    /\ pc' = "loop"
    /\ UNCHANGED <<exitCode, fs, all_items, converted, ignored, opened,
                   invoked, procs, success, result, checked, listed, dir0>>

\* After the loop: the RESULT line, then the script runs off its end.
LoopEnd ==
    /\ pc = "loop"
    /\ idx = Len(all_items)
    /\ result' = IF processed_files_count = 0
                 THEN [kind |-> "no_files", count |-> 0]
                 ELSE [kind |-> "attempted", count |-> processed_files_count]
    /\ Exit(0)
    /\ UNCHANGED <<fs, all_items, idx, processed_files_count, cur, converted,
                   ignored, opened, invoked, procs, success, checked, listed,
                   dir0, outcomes>>

\* ---------------------------------------------------------------------------
\* convert_code_to_pdf
\* ---------------------------------------------------------------------------

\* The function returns with one outcome, printed on one stream.
Finish(c, outcome, msg, stream) ==
    /\ cur' = [c EXCEPT !.outcome = outcome, !.msg = msg, !.stream = stream]
    /\ pc' = "returned"

\* Variant of Read: the test `if not code_content.strip()` is missing.
ReadNoStripCheck ==
    /\ pc = "read"
    /\ opened' = opened \cup {cur.path}
    /\ \E ev \in {"present", "vanished", "denied"} :
         CASE ev = "vanished" ->
                /\ fs' = [fs EXCEPT ![cur.path] = Absent]
                /\ Finish([cur EXCEPT !.read = "FileNotFoundError"],
                          "skip", "read_error", "stdout")
           [] ev = "denied" ->
                /\ fs' = fs
                /\ Finish([cur EXCEPT !.read = "PermissionError"],
                          "skip", "read_error", "stdout")
           [] ev = "present" ->
                /\ fs' = fs
                /\ LET c == fs[cur.path]
                   IN  IF DecodeFails(c)
                       THEN Finish([cur EXCEPT !.read = "UnicodeDecodeError", !.content = c],
                                   "skip", "not_text", "stdout")
                       ELSE /\ cur' = [cur EXCEPT !.read = "ok", !.content = c]
                            /\ pc' = "lexer"
    /\ UNCHANGED <<exitCode, all_items, idx, processed_files_count, converted,
                   ignored, invoked, procs, success, result, checked, listed,
                   dir0, outcomes>>

\* open(code_file_path, 'r', encoding='utf-8'), f.read() and the strip test.
\* The inner handlers turn a decoding error and every other exception of the
\* read, FileNotFoundError included, into a skip printed on standard output.
Read ==
    /\ pc = "read"
    /\ opened' = opened \cup {cur.path}
    /\ \E ev \in {"present", "vanished", "denied"} :
         CASE ev = "vanished" ->
                /\ fs' = [fs EXCEPT ![cur.path] = Absent]
                /\ Finish([cur EXCEPT !.read = "FileNotFoundError"],
                          "skip", "read_error", "stdout")
           [] ev = "denied" ->
                /\ fs' = fs
                /\ Finish([cur EXCEPT !.read = "PermissionError"],
                          "skip", "read_error", "stdout")
           [] ev = "present" ->
                /\ fs' = fs
                /\ LET c == fs[cur.path]
                   IN  IF DecodeFails(c)
                       THEN Finish([cur EXCEPT !.read = "UnicodeDecodeError", !.content = c],
                                   "skip", "not_text", "stdout")
                       ELSE IF StripIsEmpty(c)
                       THEN Finish([cur EXCEPT !.read = "ok", !.content = c],
                                   "skip", "blank", "stdout")
                       ELSE /\ cur' = [cur EXCEPT !.read = "ok", !.content = c]
                            /\ pc' = "lexer"
    /\ UNCHANGED <<exitCode, all_items, idx, processed_files_count, converted,
                   ignored, invoked, procs, success, result, checked, listed,
                   dir0, outcomes>>

\* Variant of ResolveLexer: content sniffing is tried first and wins.
ResolveLexerGuessFirst ==
    /\ pc = "lexer"
    /\ LET byName == LexerForFilename(cur.path)
           guessed == GuessLexer(cur.content)
       IN  IF guessed # "ClassNotFound"
           THEN /\ cur' = [cur EXCEPT !.sniffed = guessed, !.lexer = guessed]
                /\ pc' = "render"
           ELSE IF byName # "ClassNotFound"
           THEN /\ cur' = [cur EXCEPT !.byName = byName, !.sniffed = guessed,
                                      !.lexer = byName]
                /\ pc' = "render"
           ELSE Finish([cur EXCEPT !.byName = byName, !.sniffed = guessed],
                       "skip", "no_lexer", "stdout")
    /\ UNCHANGED <<exitCode, fs, all_items, idx, processed_files_count,
                   converted, ignored, opened, invoked, procs, success, result,
                   checked, listed, dir0, outcomes>>

\* get_lexer_for_filename, then guess_lexer only under its ClassNotFound.
ResolveLexer ==
    /\ pc = "lexer"
    /\ LET byName == LexerForFilename(cur.path)
           guessed == GuessLexer(cur.content)
       IN  IF byName # "ClassNotFound"
           THEN /\ cur' = [cur EXCEPT !.byName = byName, !.lexer = byName]
                /\ pc' = "render"
           ELSE IF guessed # "ClassNotFound"
           THEN /\ cur' = [cur EXCEPT !.byName = byName, !.sniffed = guessed,
                                      !.lexer = guessed]
                /\ pc' = "render"
           ELSE Finish([cur EXCEPT !.byName = byName, !.sniffed = guessed],
                       "skip", "no_lexer", "stdout")
    /\ UNCHANGED <<exitCode, fs, all_items, idx, processed_files_count,
                   converted, ignored, opened, invoked, procs, success, result,
                   checked, listed, dir0, outcomes>>

\* Variant of Render: an exception of highlight leaves convert_code_to_pdf and
\* is reported by the handler of main, which ends the loop.
RenderRaisesToMain ==
    /\ pc = "render"
    /\ \E raises \in BOOLEAN :
         IF raises
         THEN /\ cur' = cur
              /\ Exit(0)
         ELSE /\ cur' = [cur EXCEPT !.rendered = TRUE]
              /\ pc' = "spawn"
              /\ exitCode' = exitCode
    /\ UNCHANGED <<fs, all_items, idx, processed_files_count,
                   converted, ignored, opened, invoked, procs, success, result,
                   checked, listed, dir0, outcomes>>

\* HtmlFormatter(...) and highlight(...); an exception lands in the outer
\* `except Exception`.
Render ==
    /\ pc = "render"
    /\ \E raises \in BOOLEAN :
         IF raises
         THEN Finish(cur, "error", "unexpected", "stderr")
         ELSE /\ cur' = [cur EXCEPT !.rendered = TRUE]
              /\ pc' = "spawn"
    /\ UNCHANGED <<exitCode, fs, all_items, idx, processed_files_count,
                   converted, ignored, opened, invoked, procs, success, result,
                   checked, listed, dir0, outcomes>>

\* subprocess.Popen(command, ...). When the binary has gone since the startup
\* check, Popen raises FileNotFoundError, which the outer handler reports.
Spawn ==
    /\ pc = "spawn"
    /\ \E r \in {"ok", "FileNotFoundError"} :
         IF r = "ok"
         THEN /\ procs' = procs \cup {cur.path}
              /\ invoked' = invoked \cup {cur.path}
              /\ cur' = [cur EXCEPT !.spawned = TRUE]
              /\ pc' = "communicate"
         ELSE /\ Finish(cur, "error", "could_not_find", "stderr")
              /\ UNCHANGED <<procs, invoked>>
    /\ UNCHANGED <<exitCode, fs, all_items, idx, processed_files_count,
                   converted, ignored, opened, success, result, checked,
                   listed, dir0, outcomes>>

\* What the backend leaves at the output path when it runs to its exit.
BackendWrites(out, src, eff) ==
    CASE eff = "pdf" -> [fs EXCEPT ![out] = Content("pdf", src)]
      [] eff = "empty" -> [fs EXCEPT ![out] = Content("empty", NoPath)]
      [] eff = "none" -> fs

\* process.communicate(input=highlighted_html.encode('utf-8')). The argument
\* is evaluated first: when encode raises (the title is the file name, which
\* os.listdir may return with lone surrogates), communicate is never called
\* and the outer handler reports the exception while the process stays
\* spawned. Otherwise the input is fed, the pipes are drained and the process
\* is waited on; it exits with some code, having written the output or not.
Communicate ==
    /\ pc = "communicate"
    /\ LET out == OutputPdfPath(cur.path, CurrentDir)
       IN  \E encodeRaises \in BOOLEAN :
             IF encodeRaises
             THEN /\ Finish(cur, "error", "unexpected", "stderr")
                  /\ UNCHANGED <<fs, procs>>
             ELSE \E rc \in {0, 1}, eff \in {"pdf", "empty", "none"} :
                    /\ fs[out].kind = "dir" => (eff = "none" /\ rc = 1)
                    /\ fs' = BackendWrites(out, cur.path, eff)
                    /\ procs' = procs \ {cur.path}
                    /\ cur' = [cur EXCEPT !.waited = TRUE, !.rc = rc,
                                          !.wrote = (eff # "none")]
                    /\ pc' = "classify"
    /\ UNCHANGED <<exitCode, all_items, idx, processed_files_count, converted,
                   ignored, opened, invoked, success, result, checked, listed,
                   dir0, outcomes>>

\* Variant of Classify: the size of the output file is not looked at.
ClassifyExistsOnly ==
    /\ pc = "classify"
    /\ LET out == OutputPdfPath(cur.path, CurrentDir)
       IN  IF cur.rc = 0
           THEN IF Exists(fs[out])
                THEN /\ Finish(cur, "success", "success", "stdout")
                     /\ success' = success \cup {cur.path}
                ELSE /\ Finish(cur, "warning", "pdf_missing", "stderr")
                     /\ success' = success
           ELSE /\ Finish(cur, "error", "backend_failed", "stderr")
                /\ success' = success
    /\ UNCHANGED <<exitCode, fs, all_items, idx, processed_files_count,
                   converted, ignored, opened, invoked, procs, result, checked,
                   listed, dir0, outcomes>>

\* The if/elif/else on process.returncode and the output file.
Classify ==
    /\ pc = "classify"
    /\ LET out == OutputPdfPath(cur.path, CurrentDir)
       IN  IF cur.rc = 0
           THEN IF Exists(fs[out]) /\ SizePositive(fs[out])
                THEN /\ Finish(cur, "success", "success", "stdout")
                     /\ success' = success \cup {cur.path}
                ELSE IF Exists(fs[out])
                THEN /\ Finish(cur, "warning", "empty_pdf", "stderr")
                     /\ success' = success
                ELSE /\ Finish(cur, "warning", "pdf_missing", "stderr")
                     /\ success' = success
           ELSE /\ Finish(cur, "error", "backend_failed", "stderr")
                /\ success' = success
    /\ UNCHANGED <<exitCode, fs, all_items, idx, processed_files_count,
                   converted, ignored, opened, invoked, procs, result, checked,
                   listed, dir0, outcomes>>

Next ==
    \/ AvailabilityCheck
    \/ MainListdir
    \/ LoopStep
    \/ LoopReturn
    \/ LoopEnd
    \/ Read
    \/ ResolveLexer
    \/ Render
    \/ Spawn
    \/ Communicate
    \/ Classify

Spec == Init /\ [][Next]_vars

\* ---------------------------------------------------------------------------
\* Properties
\* ---------------------------------------------------------------------------

\* Positions inside convert_code_to_pdf and right after its return.
ConvertPcs == {"read", "lexer", "render", "spawn", "communicate", "classify", "returned"}

\* Entries of all_items the loop has reached so far.
Handled == IF pc \in ConvertPcs THEN idx + 1 ELSE idx

\* A listed entry is a candidate: not named like the script, a regular file.
Eligible(n) == n # script_name /\ IsFile(dir0[FilePath(n)])

\* Output path of the conversion in progress.
CurOut == OutputPdfPath(cur.path, CurrentDir)

\* C1: when the startup check of the backend fails, the process ends with exit
\* code 1 and nothing of the directory was listed, opened, converted or
\* changed; any file access implies the check succeeded before it.
C1_CheckPrecedesFileAccess ==
    /\ checked = "failed" =>
         /\ pc = "exited"
         /\ exitCode = 1
         /\ ~listed
         /\ all_items = <<>>
         /\ converted = <<>>
         /\ opened = {}
         /\ invoked = {}
         /\ fs = dir0
    /\ (listed \/ converted # <<>> \/ opened # {} \/ invoked # {}) => checked = "ok"

\* A failed check in a directory that holds a regular file.
C1_Witness ==
    /\ checked = "failed"
    /\ pc = "exited"
    /\ \E n \in Names : Eligible(n)

C3_AttemptedCount ==
    (listed /\ result.kind # "none") =>
        LET N == Cardinality({i \in 1..Len(all_items) : Eligible(all_items[i])})
        IN  /\ processed_files_count = N
            /\ result = IF N = 0
                        THEN [kind |-> "no_files", count |-> 0]
                        ELSE [kind |-> "attempted", count |-> N]
            /\ exitCode = 0

\* Two files attempted, none of them converted successfully.
C3_Witness ==
    /\ pc = "exited"
    /\ result = [kind |-> "attempted", count |-> 2]
    /\ outcomes[1] = "skip"
    /\ outcomes[2] \in {"warning", "error"}

\* C4: an entry the loop has reached was passed to per-file conversion if and
\* only if it is not named like the script and is a regular file; any other
\* entry was ignored, never opened, never given to the backend, and the
\* counter counts the finished conversions only.
C4_ScriptAndNonFilesExcluded ==
    listed =>
        /\ \A i \in 1..Handled :
             LET n == all_items[i]
             IN  /\ (\E j \in 1..Len(converted) : converted[j] = n) <=> Eligible(n)
                 /\ ~Eligible(n) =>
                      /\ n \in ignored
                      /\ FilePath(n) \notin opened
                      /\ FilePath(n) \notin invoked
        /\ processed_files_count = Len(outcomes)
        /\ Len(outcomes) = Len(converted) - (IF pc \in ConvertPcs THEN 1 ELSE 0)

\* The script lies in the directory as a text file next to one converted file.
C4_Witness ==
    /\ pc = "exited"
    /\ script_name \in ignored
    /\ dir0[FilePath(script_name)].kind = "opaque"
    /\ Len(converted) = 1
    /\ processed_files_count = 1

\* C5: once a file's content was read and does not decode as text or is empty
\* or whitespace-only, the call has returned with a skip: no lexer was looked
\* for, nothing was rendered, no backend was spawned and nothing was written.
C5_BinaryOrBlankSkipped ==
    (cur.content # Absent /\ (DecodeFails(cur.content) \/ StripIsEmpty(cur.content))) =>
        /\ pc = "returned"
        /\ cur.outcome = "skip"
        /\ cur.stream = "stdout"
        /\ cur.byName = "none"
        /\ cur.sniffed = "none"
        /\ cur.lexer = "none"
        /\ ~cur.rendered
        /\ ~cur.spawned
        /\ ~cur.wrote
        /\ cur.path \notin invoked

\* A whitespace-only file with the extension of a known grammar was skipped.
C5_Witness ==
    /\ pc = "returned"
    /\ cur.content.kind = "space"
    /\ LexerForFilename(cur.path) = "Python"
    /\ cur.outcome = "skip"

\* The conversion in progress has text content and is past lexer resolution.
PastLexer ==
    /\ pc \in ConvertPcs \ {"read", "lexer"}
    /\ cur.read = "ok"
    /\ ~StripIsEmpty(cur.content)

\* C6: ordered fallback. Content sniffing was tried only when the name gave no
\* match; a match by name is the grammar used; when neither stage matches the
\* call has returned with a skip on standard output, nothing rendered, no
\* backend spawned, nothing written.
C6_OrderedLexerFallback ==
    PastLexer =>
        LET byName == LexerForFilename(cur.path)
            guessed == GuessLexer(cur.content)
        IN  /\ cur.sniffed # "none" => byName = "ClassNotFound"
            /\ byName # "ClassNotFound" => (cur.lexer = byName /\ cur.sniffed = "none")
            /\ (byName = "ClassNotFound" /\ guessed # "ClassNotFound") =>
                 (cur.lexer = guessed /\ cur.sniffed = guessed)
            /\ (byName = "ClassNotFound" /\ guessed = "ClassNotFound") =>
                 /\ pc = "returned"
                 /\ cur.outcome = "skip"
                 /\ cur.stream = "stdout"
                 /\ ~cur.rendered
                 /\ ~cur.spawned
                 /\ ~cur.wrote
                 /\ cur.path \notin invoked

\* A text file that neither stage recognises has been skipped.
C6_Witness ==
    /\ pc = "returned"
    /\ cur.read = "ok"
    /\ cur.content.kind = "opaque"
    /\ cur.byName = "ClassNotFound"
    /\ cur.sniffed = "ClassNotFound"
    /\ cur.msg = "no_lexer"

\* C7: after the backend was waited on, the reported outcome is determined by
\* the exit code and the output file: code 0 with a non-empty file is success;
\* code 0 with an empty file is a warning and the file stays; code 0 with no
\* file is a warning; any other code is an error. Success goes to standard
\* output, warnings and errors to the error stream, and the loop goes on.
C7_ResultClassification ==
    (pc = "returned" /\ cur.waited) =>
        LET exists == Exists(fs[CurOut])
            positive == SizePositive(fs[CurOut])
        IN  /\ (cur.rc = 0 /\ exists /\ positive) =>
                 (cur.outcome = "success" /\ cur.stream = "stdout")
            /\ (cur.rc = 0 /\ exists /\ ~positive) =>
                 (cur.outcome = "warning" /\ cur.msg = "empty_pdf" /\ cur.stream = "stderr")
            /\ (cur.rc = 0 /\ ~exists) =>
                 (cur.outcome = "warning" /\ cur.msg = "pdf_missing" /\ cur.stream = "stderr")
            /\ cur.rc # 0 =>
                 (cur.outcome = "error" /\ cur.msg = "backend_failed" /\ cur.stream = "stderr")
            /\ (cur.path \in success) <=> (cur.outcome = "success")

\* The backend exited with 0 and left an empty output file.
C7_Witness ==
    /\ pc = "returned"
    /\ cur.waited
    /\ cur.rc = 0
    /\ fs[CurOut].kind = "empty"
    /\ cur.outcome = "warning"

\* C8: a listed source file that is missing when it is opened ends as a
\* per-file error, reported on the error stream as "could not find file".
C8_MissingSourceIsError ==
    cur.read = "FileNotFoundError" =>
        /\ cur.outcome = "error"
        /\ cur.msg = "could_not_find"
        /\ cur.stream = "stderr"

\* C9: at the end of a run the files reported as success stand one-to-one for
\* distinct PDF files, each holding the rendering of its own source.
C9_OnePdfPerSuccess ==
    pc = "exited" =>
        /\ \A p \in success :
             fs[OutputPdfPath(p, CurrentDir)] = Content("pdf", p)
        /\ \A p, q \in success :
             p # q => OutputPdfPath(p, CurrentDir) # OutputPdfPath(q, CurrentDir)

\* C10: between two conversions and at the end of the run no backend process
\* is left that was spawned and not waited on, and never more than one exists.
C10_BackendAlwaysWaitedOn ==
    /\ Cardinality(procs) <= 1
    /\ pc \in {"loop", "returned", "exited"} => procs = {}

====
